---- MODULE Spec2Model ----
(***************************************************************************)
(* State machine of the App component of src/types.ts (GM Studio): the     *)
(* React state of the session, the event handlers, the [pgn] effect and    *)
(* the asynchronous calls to the services of src/services.                 *)
(*                                                                         *)
(* The rules engine (chess.js) is an external library.  It is modelled as  *)
(* a small game with the interface the App uses (new Chess, move, fen,     *)
(* pgn, loadPgn, history): White may play e4 and Nf3, Black may play e5    *)
(* and Nc6, the sides alternate, a move by the wrong side or a move        *)
(* already made is illegal and throws.                                     *)
(***************************************************************************)
EXTENDS Integers, Sequences, FiniteSets, Bags, TLC

\* Bounds of the model.
MaxChat == 2      \* messages a transcript may hold before a further send is cut off
MaxCalls == 2     \* network calls that may be in flight together

VARIABLES
  game,               \* useState(new Chess())           types.ts:67
  pgn,                \* useState('')                    types.ts:68
  username,           \* useState('')                    types.ts:69
  inputMode,          \* useState('manual')              types.ts:70
  recentGames,        \* useState([])                    types.ts:72
  isSearchingLichess, \* useState(false)                 types.ts:73
  showGameSelector,   \* useState(false)                 types.ts:74
  isAnalyzing,        \* useState(false)                 types.ts:76
  analysis,           \* useState(null)                  types.ts:77
  moveHistory,        \* useState([])                    types.ts:78
  currentMoveIndex,   \* useState(-1)                    types.ts:79
  error,              \* useState(null)                  types.ts:80
  activeTab,          \* useState('analysis')            types.ts:82
  chatMessages,       \* useState([])                    types.ts:83
  userQuery,          \* useState('')                    types.ts:84
  isThinking,         \* useState(false)                 types.ts:85
  calls,              \* the bag of promises the async handlers await
  event               \* observation: the last handler that ran, its input, its return value

vars == <<game, pgn, username, inputMode, recentGames, isSearchingLichess,
          showGameSelector, isAnalyzing, analysis, moveHistory, currentMoveIndex,
          error, activeTab, chatMessages, userQuery, isThinking, calls, event>>

-----------------------------------------------------------------------------
(* The rules engine.                                                       *)

Sans == {"e4", "Nf3", "e5", "Nc6"}

\* A position (what a FEN string encodes): piece placement and side to move.
DEFAULT_POSITION == [wp |-> "e2", wn |-> "g1", bp |-> "e7", bn |-> "b8", turn |-> "w"]

\* chess.move(san) succeeds
LegalMove(pos, san) ==
  \/ san = "e4"  /\ pos.turn = "w" /\ pos.wp = "e2"
  \/ san = "Nf3" /\ pos.turn = "w" /\ pos.wn = "g1"
  \/ san = "e5"  /\ pos.turn = "b" /\ pos.bp = "e7"
  \/ san = "Nc6" /\ pos.turn = "b" /\ pos.bn = "b8"

\* the position after a legal move
ApplyMove(pos, san) ==
  CASE san = "e4"  -> [pos EXCEPT !.wp = "e4", !.turn = "b"]
    [] san = "Nf3" -> [pos EXCEPT !.wn = "f3", !.turn = "b"]
    [] san = "e5"  -> [pos EXCEPT !.bp = "e5", !.turn = "w"]
    [] san = "Nc6" -> [pos EXCEPT !.bn = "c6", !.turn = "w"]

\* Playing a list of moves from a position: ok is FALSE when one of them is
\* illegal (the engine throws there), pos is the position reached.
RECURSIVE PlayMoves(_, _)
PlayMoves(pos, sans) ==
  IF sans = <<>> THEN [ok |-> TRUE, pos |-> pos]
  ELSE IF LegalMove(pos, Head(sans))
         THEN PlayMoves(ApplyMove(pos, Head(sans)), Tail(sans))
         ELSE [ok |-> FALSE, pos |-> pos]

\* A Chess object: the position it was set up from and the moves made since.
NewChess(fenStr) == [start |-> fenStr, hist |-> <<>>]

\* chess.fen()
fen(chess) == PlayMoves(chess.start, chess.hist).pos

\* chess.history()
history(chess) == chess.hist

\* A PGN text: the FEN header it carries (<<position>>, or NoFen when it has
\* none) and its move text.  The empty string is the text with neither.
NoFen == <<>>
EmptyPgn == [fen |-> NoFen, moves |-> <<>>]

\* chess.pgn(): the SetUp/FEN headers are written only for a game that was set
\* up from another position than DEFAULT_POSITION.
pgnOf(chess) ==
  [fen |-> IF chess.start = DEFAULT_POSITION THEN NoFen ELSE <<chess.start>>,
   moves |-> chess.hist]

\* chess.loadPgn(text) on a new Chess(): ok is FALSE when it throws.
loadPgn(text) ==
  LET start == IF text.fen = NoFen THEN DEFAULT_POSITION ELSE text.fen[1]
  IN [ok |-> PlayMoves(start, text.moves).ok,
      chess |-> [start |-> start, hist |-> text.moves]]

-----------------------------------------------------------------------------
(* Values of the session state and the inputs the environment supplies.    *)

NoError == "null"
InvalidPgnMsg == "Invalid PGN data."
NotFoundMsg == "Lichess user not found or private."
FetchFailedMsg == "Could not fetch game PGN."
NetworkMsg == "Failed to fetch"
NoGameMsg == "Please input some moves or upload a game first."
AnalysisFailedMsg == "Analysis failed. Please try again."
ChatFailedMsg == "Chat failed. Check your API key or connection."

InputModes == {"manual", "pgn", "lichess"}
Tabs == {"analysis", "chat"}

\* Texts are sequences of characters.
Blank == " "
Queries == {<<>>, <<Blank>>, <<"q">>}
ReplyText == <<"r">>
ApologyText == <<"s", "o", "r", "r", "y">>
Usernames == {<<>>, <<"u">>}

\* String.prototype.trim
RECURSIVE trimStart(_)
trimStart(s) == IF s # <<>> /\ Head(s) = Blank THEN trimStart(Tail(s)) ELSE s
RECURSIVE trimEnd(_)
trimEnd(s) ==
  IF s # <<>> /\ s[Len(s)] = Blank THEN trimEnd(SubSeq(s, 1, Len(s) - 1)) ELSE s
trim(s) == trimEnd(trimStart(s))

\* The files a user uploads: the game of the documented scenario, a text whose
\* second move is illegal, and an empty file.
ScenarioPgn == [fen |-> NoFen, moves |-> <<"e4", "e5", "Nf3">>]
IllegalPgn == [fen |-> NoFen, moves |-> <<"e4", "e4">>]
PgnFiles == {ScenarioPgn, IllegalPgn, EmptyPgn}

\* What the game server holds: the list of one user's games and their PGN.
ServerGames == <<"g1">>
ServerPgn(gameId) == [fen |-> NoFen, moves |-> <<"Nf3", "Nc6">>]

\* The FullAnalysis fields; an analysis value is <<the fields it has>>, null is <<>>.
AnalysisFields ==
  {"opening", "middlegame", "tactics", "endgame", "overallAdvice", "referencedBooks"}
NoAnalysis == <<>>

\* Responses of the AI API to generateContent: the call rejects, or resolves
\* with a text that is not JSON, or with JSON holding some of the fields.
AnalysisResponses ==
  { [rejects |-> TRUE, json |-> FALSE, fields |-> {}],
    [rejects |-> FALSE, json |-> FALSE, fields |-> {}],
    [rejects |-> FALSE, json |-> TRUE, fields |-> AnalysisFields \ {"endgame"}],
    [rejects |-> FALSE, json |-> TRUE, fields |-> AnalysisFields] }

\* Responses of the AI API to sendMessage: rejects, or resolves with a text
\* (possibly empty).
ChatResponses ==
  { [rejects |-> TRUE, text |-> <<>>],
    [rejects |-> FALSE, text |-> <<>>],
    [rejects |-> FALSE, text |-> ReplyText] }

\* Responses of the game server to a fetch: the fetch rejects (network), or
\* resolves with an HTTP status.
FetchResponses ==
  { [rejects |-> TRUE, status |-> 0],
    [rejects |-> FALSE, status |-> 404],
    [rejects |-> FALSE, status |-> 200] }
responseOk(r) == r.status >= 200 /\ r.status <= 299

\* An awaited promise: the service called, the game asked for, and the
\* newMessages constant the handler's closure holds (handleSendChat).  shown
\* is an observation the handler does not keep: the analysis that was on
\* display when startAnalysis was triggered.
Call(kind, gameId, newMessages, shown) ==
  [kind |-> kind, gameId |-> gameId, newMessages |-> newMessages, shown |-> shown]

\* the calls in flight: how many, with one more, with one settled
InFlight == BagCardinality(calls)
Issue(call) == calls (+) SetToBag({call})
Settle(call) == calls (-) SetToBag({call})

Init ==
  /\ game = NewChess(DEFAULT_POSITION)
  /\ pgn = EmptyPgn
  /\ username = <<>>
  /\ inputMode = "manual"
  /\ recentGames = <<>>
  /\ isSearchingLichess = FALSE
  /\ showGameSelector = FALSE
  /\ isAnalyzing = FALSE
  /\ analysis = NoAnalysis
  /\ moveHistory = <<>>
  /\ currentMoveIndex = -1
  /\ error = NoError
  /\ activeTab = "analysis"
  /\ chatMessages = <<>>
  /\ userQuery = <<>>
  /\ isThinking = FALSE
  /\ calls = EmptyBag
  /\ event = [op |-> "mount"]

-----------------------------------------------------------------------------
(* The services: what each returns or throws for a response.               *)

\* fetchRecentLichessGames without the response.ok test
fetchRecentLichessGames_noOkTest(resp) ==
  IF resp.rejects THEN [throws |-> TRUE, message |-> NetworkMsg, games |-> <<>>]
  ELSE [throws |-> FALSE, message |-> NoError, games |-> ServerGames]

\* lichessService.ts fetchRecentLichessGames
fetchRecentLichessGames(resp) ==
  IF resp.rejects THEN [throws |-> TRUE, message |-> NetworkMsg, games |-> <<>>]
  ELSE IF ~responseOk(resp) THEN [throws |-> TRUE, message |-> NotFoundMsg, games |-> <<>>]
  ELSE [throws |-> FALSE, message |-> NoError, games |-> ServerGames]

\* lichessService.ts fetchLichessGamePgn
fetchLichessGamePgn(resp, gameId) ==
  IF resp.rejects THEN [throws |-> TRUE, message |-> NetworkMsg, text |-> EmptyPgn]
  ELSE IF ~responseOk(resp) THEN [throws |-> TRUE, message |-> FetchFailedMsg, text |-> EmptyPgn]
  ELSE [throws |-> FALSE, message |-> NoError, text |-> ServerPgn(gameId)]

\* geminiService.ts analyzeGame: JSON.parse is the only validation
analyzeGame(resp) ==
  IF resp.rejects \/ ~resp.json THEN [throws |-> TRUE, result |-> NoAnalysis]
  ELSE [throws |-> FALSE, result |-> <<resp.fields>>]

\* geminiService.ts chatWithAssistant
chatWithAssistant(resp) ==
  IF resp.rejects THEN [throws |-> TRUE, text |-> <<>>]
  ELSE [throws |-> FALSE, text |-> IF resp.text # <<>> THEN resp.text ELSE ApologyText]

-----------------------------------------------------------------------------
(* The replay state: the [pgn] effect, board moves, navigation.            *)

\* SetPgn with the index set to history.length instead of history.length - 1
SetPgn_indexAtLength(text, g, e) ==
  /\ pgn' = text
  /\ IF text # pgn /\ text # EmptyPgn
       THEN LET tempGame == loadPgn(text) IN
            IF tempGame.ok
              THEN /\ moveHistory' = history(tempGame.chess)
                   /\ currentMoveIndex' = Len(history(tempGame.chess))
                   /\ game' = tempGame.chess
                   /\ error' = e
              ELSE /\ error' = InvalidPgnMsg
                   /\ game' = g
                   /\ UNCHANGED <<moveHistory, currentMoveIndex>>
       ELSE /\ game' = g
            /\ error' = e
            /\ UNCHANGED <<moveHistory, currentMoveIndex>>

\* setPgn(text) in one batch with setGame(g) and setError(e), and the
\* useEffect([pgn]) that React runs after it when the value of pgn changed.
SetPgn(text, g, e) ==
  /\ pgn' = text
  /\ IF text # pgn /\ text # EmptyPgn
       THEN LET tempGame == loadPgn(text) IN
            IF tempGame.ok
              THEN /\ moveHistory' = history(tempGame.chess)
                   /\ currentMoveIndex' = Len(history(tempGame.chess)) - 1
                   /\ game' = tempGame.chess
                   /\ error' = e
              ELSE /\ error' = InvalidPgnMsg
                   /\ game' = g
                   /\ UNCHANGED <<moveHistory, currentMoveIndex>>
       ELSE /\ game' = g
            /\ error' = e
            /\ UNCHANGED <<moveHistory, currentMoveIndex>>

\* makeAMove with setError(null) ahead of the move attempt
makeAMove_clearsErrorFirst(san) ==
  LET gameCopy == NewChess(fen(game)) IN
  /\ IF LegalMove(fen(gameCopy), san)
       THEN LET moved == [gameCopy EXCEPT !.hist = Append(gameCopy.hist, san)] IN
            /\ SetPgn(pgnOf(moved), moved, NoError)
            /\ event' = [op |-> "onDrop", san |-> san, ret |-> TRUE]
       ELSE /\ error' = NoError
            /\ UNCHANGED <<game, pgn, moveHistory, currentMoveIndex>>
            /\ event' = [op |-> "onDrop", san |-> san, ret |-> FALSE]
  /\ UNCHANGED <<username, inputMode, recentGames, isSearchingLichess, showGameSelector,
                 isAnalyzing, analysis, activeTab, chatMessages, userQuery, isThinking,
                 calls>>

\* makeAMove / onDrop: a piece dropped on the board
makeAMove(san) ==
  LET gameCopy == NewChess(fen(game)) IN
  /\ IF LegalMove(fen(gameCopy), san)
       THEN LET moved == [gameCopy EXCEPT !.hist = Append(gameCopy.hist, san)] IN
            /\ SetPgn(pgnOf(moved), moved, NoError)
            /\ event' = [op |-> "onDrop", san |-> san, ret |-> TRUE]
       ELSE /\ UNCHANGED <<game, pgn, moveHistory, currentMoveIndex, error>>
            /\ event' = [op |-> "onDrop", san |-> san, ret |-> FALSE]
  /\ UNCHANGED <<username, inputMode, recentGames, isSearchingLichess, showGameSelector,
                 isAnalyzing, analysis, activeTab, chatMessages, userQuery, isThinking,
                 calls>>

onDrop == \E san \in Sans : makeAMove(san)

\* handlePgnUpload with reader.onload: the upload widget shows in mode 'pgn'
handlePgnUpload(content) ==
  /\ inputMode = "pgn"
  /\ SetPgn(content, game, error)
  /\ inputMode' = "pgn"
  /\ event' = [op |-> "handlePgnUpload", text |-> content]
  /\ UNCHANGED <<username, recentGames, isSearchingLichess, showGameSelector,
                 isAnalyzing, analysis, activeTab, chatMessages, userQuery, isThinking,
                 calls>>

PgnUpload == \E content \in PgnFiles : handlePgnUpload(content)

\* navigateToMove(index): an exception of loadPgn or move leaves the handler
\* before its two setters.
navigateToMove(index) ==
  /\ IF pgn # EmptyPgn
       THEN LET tempGame == loadPgn(pgn)
                hist == history(tempGame.chess)
                played == SubSeq(hist, 1, index + 1)
            IN IF /\ tempGame.ok
                  /\ index + 1 <= Len(hist)
                  /\ PlayMoves(DEFAULT_POSITION, played).ok
                 THEN /\ game' = [start |-> DEFAULT_POSITION, hist |-> played]
                      /\ currentMoveIndex' = index
                 ELSE UNCHANGED <<game, currentMoveIndex>>
       ELSE UNCHANGED <<game, currentMoveIndex>>
  /\ event' = [op |-> "navigateToMove", index |-> index]
  /\ UNCHANGED <<pgn, moveHistory, error, username, inputMode, recentGames,
                 isSearchingLichess, showGameSelector, isAnalyzing, analysis,
                 activeTab, chatMessages, userQuery, isThinking, calls>>

\* the previous button, disabled at the starting position
Previous == currentMoveIndex >= 0 /\ navigateToMove(currentMoveIndex - 1)

\* the next button, disabled at the last move
NextMove == currentMoveIndex < Len(moveHistory) - 1 /\ navigateToMove(currentMoveIndex + 1)

\* a click on a move of the move history list
ClickMove == \E idx \in 0 .. Len(moveHistory) - 1 : navigateToMove(idx)

\* resetGame without setChatMessages([])
resetGame_keepsTranscript ==
  /\ game' = NewChess(DEFAULT_POSITION)
  /\ pgn' = EmptyPgn
  /\ moveHistory' = <<>>
  /\ currentMoveIndex' = -1
  /\ analysis' = NoAnalysis
  /\ error' = NoError
  /\ event' = [op |-> "resetGame"]
  /\ UNCHANGED <<username, inputMode, recentGames, isSearchingLichess, showGameSelector,
                 isAnalyzing, activeTab, chatMessages, userQuery, isThinking, calls>>

\* resetGame
resetGame ==
  /\ game' = NewChess(DEFAULT_POSITION)
  /\ pgn' = EmptyPgn
  /\ moveHistory' = <<>>
  /\ currentMoveIndex' = -1
  /\ analysis' = NoAnalysis
  /\ chatMessages' = <<>>
  /\ error' = NoError
  /\ event' = [op |-> "resetGame"]
  /\ UNCHANGED <<username, inputMode, recentGames, isSearchingLichess, showGameSelector,
                 isAnalyzing, activeTab, userQuery, isThinking, calls>>

-----------------------------------------------------------------------------
(* The input widgets.                                                      *)

\* the three input-method buttons
setInputMode ==
  \E mode \in InputModes :
    /\ mode # inputMode
    /\ inputMode' = mode
    /\ event' = [op |-> "setInputMode"]
    /\ UNCHANGED <<game, pgn, username, recentGames, isSearchingLichess,
                   showGameSelector, isAnalyzing, analysis, moveHistory,
                   currentMoveIndex, error, activeTab, chatMessages, userQuery,
                   isThinking, calls>>

\* the username field, shown in mode 'lichess'
setUsername ==
  \E name \in Usernames :
    /\ inputMode = "lichess"
    /\ name # username
    /\ username' = name
    /\ event' = [op |-> "setUsername"]
    /\ UNCHANGED <<game, pgn, inputMode, recentGames, isSearchingLichess,
                   showGameSelector, isAnalyzing, analysis, moveHistory,
                   currentMoveIndex, error, activeTab, chatMessages, userQuery,
                   isThinking, calls>>

\* the two tab buttons
setActiveTab ==
  \E tab \in Tabs :
    /\ tab # activeTab
    /\ activeTab' = tab
    /\ event' = [op |-> "setActiveTab"]
    /\ UNCHANGED <<game, pgn, username, inputMode, recentGames, isSearchingLichess,
                   showGameSelector, isAnalyzing, analysis, moveHistory,
                   currentMoveIndex, error, chatMessages, userQuery, isThinking,
                   calls>>

\* the chat input field, shown on the chat tab
setUserQuery ==
  \E text \in Queries :
    /\ activeTab = "chat"
    /\ text # userQuery
    /\ userQuery' = text
    /\ event' = [op |-> "setUserQuery"]
    /\ UNCHANGED <<game, pgn, username, inputMode, recentGames, isSearchingLichess,
                   showGameSelector, isAnalyzing, analysis, moveHistory,
                   currentMoveIndex, error, activeTab, chatMessages, isThinking,
                   calls>>

\* the X button of the game selector
closeGameSelector ==
  /\ showGameSelector
  /\ showGameSelector' = FALSE
  /\ event' = [op |-> "closeGameSelector"]
  /\ UNCHANGED <<game, pgn, username, inputMode, recentGames, isSearchingLichess,
                 isAnalyzing, analysis, moveHistory, currentMoveIndex, error,
                 activeTab, chatMessages, userQuery, isThinking, calls>>

-----------------------------------------------------------------------------
(* The game server.                                                        *)

\* handleLichessSearch up to its await: the search button (disabled while
\* searching) or the Enter key in the username field (never disabled).
handleLichessSearch ==
  /\ inputMode = "lichess"
  /\ IF username = <<>>
       THEN UNCHANGED <<isSearchingLichess, error, calls>>
       ELSE /\ InFlight < MaxCalls
            /\ isSearchingLichess' = TRUE
            /\ error' = NoError
            /\ calls' = Issue(Call("fetchRecentLichessGames", "", <<>>, NoAnalysis))
  /\ event' = [op |-> "handleLichessSearch"]
  /\ UNCHANGED <<game, pgn, username, inputMode, recentGames, showGameSelector,
                 isAnalyzing, analysis, moveHistory, currentMoveIndex, activeTab,
                 chatMessages, userQuery, isThinking>>

\* handleLichessSearch from its await on
LichessSearchSettled(call, resp) ==
  LET r == fetchRecentLichessGames(resp) IN
  /\ call.kind = "fetchRecentLichessGames"
  /\ calls' = Settle(call)
  /\ IF r.throws
       THEN /\ error' = r.message
            /\ UNCHANGED <<recentGames, showGameSelector>>
       ELSE /\ recentGames' = r.games
            /\ showGameSelector' = TRUE
            /\ UNCHANGED error
  /\ isSearchingLichess' = FALSE
  /\ event' = [op |-> "handleLichessSearch.settled", resp |-> resp]
  /\ UNCHANGED <<game, pgn, username, inputMode, isAnalyzing, analysis, moveHistory,
                 currentMoveIndex, activeTab, chatMessages, userQuery, isThinking>>

LichessSearchDone ==
  \E call \in BagToSet(calls) : \E resp \in FetchResponses : LichessSearchSettled(call, resp)

\* selectLichessGame up to its await: a click on a game of the selector
selectLichessGame(gameId) ==
  /\ showGameSelector
  /\ InFlight < MaxCalls
  /\ isAnalyzing' = TRUE
  /\ showGameSelector' = FALSE
  /\ calls' = Issue(Call("fetchLichessGamePgn", gameId, <<>>, NoAnalysis))
  /\ event' = [op |-> "selectLichessGame"]
  /\ UNCHANGED <<game, pgn, username, inputMode, recentGames, isSearchingLichess,
                 analysis, moveHistory, currentMoveIndex, error, activeTab,
                 chatMessages, userQuery, isThinking>>

SelectGame == \E k \in 1 .. Len(recentGames) : selectLichessGame(recentGames[k])

\* selectLichessGame from its await on
SelectGameSettled(call, resp) ==
  LET r == fetchLichessGamePgn(resp, call.gameId) IN
  /\ call.kind = "fetchLichessGamePgn"
  /\ calls' = Settle(call)
  /\ IF r.throws
       THEN /\ error' = r.message
            /\ UNCHANGED <<game, pgn, moveHistory, currentMoveIndex, inputMode>>
       ELSE /\ SetPgn(r.text, game, error)
            /\ inputMode' = "lichess"
  /\ isAnalyzing' = FALSE
  /\ event' = [op |-> "selectLichessGame.settled", resp |-> resp, text |-> r.text]
  /\ UNCHANGED <<username, recentGames, isSearchingLichess, showGameSelector, analysis,
                 activeTab, chatMessages, userQuery, isThinking>>

SelectGameDone ==
  \E call \in BagToSet(calls) : \E resp \in FetchResponses : SelectGameSettled(call, resp)

-----------------------------------------------------------------------------
(* The AI coach.                                                           *)

\* startAnalysis up to its await: the Analyze button, disabled while
\* isAnalyzing and while there is neither PGN text nor a move.
startAnalysis ==
  /\ ~(isAnalyzing \/ (pgn = EmptyPgn /\ Len(moveHistory) = 0))
  /\ IF pgn = EmptyPgn /\ Len(moveHistory) = 0
       THEN /\ error' = NoGameMsg
            /\ UNCHANGED <<isAnalyzing, analysis, calls>>
       ELSE /\ InFlight < MaxCalls
            /\ isAnalyzing' = TRUE
            /\ analysis' = NoAnalysis
            /\ error' = NoError
            /\ calls' = Issue(Call("analyzeGame", "", <<>>, analysis))
  /\ event' = [op |-> "startAnalysis"]
  /\ UNCHANGED <<game, pgn, username, inputMode, recentGames, isSearchingLichess,
                 showGameSelector, moveHistory, currentMoveIndex, activeTab,
                 chatMessages, userQuery, isThinking>>

\* startAnalysis from its await on
AnalysisSettled(call, resp) ==
  LET r == analyzeGame(resp) IN
  /\ call.kind = "analyzeGame"
  /\ calls' = Settle(call)
  /\ IF r.throws
       THEN /\ error' = AnalysisFailedMsg
            /\ UNCHANGED <<analysis, activeTab>>
       ELSE /\ analysis' = r.result
            /\ activeTab' = "analysis"
            /\ UNCHANGED error
  /\ isAnalyzing' = FALSE
  /\ event' = [op |-> "startAnalysis.settled", resp |-> resp, shown |-> call.shown]
  /\ UNCHANGED <<game, pgn, username, inputMode, recentGames, isSearchingLichess,
                 showGameSelector, moveHistory, currentMoveIndex, chatMessages,
                 userQuery, isThinking>>

AnalysisDone ==
  \E call \in BagToSet(calls) : \E resp \in AnalysisResponses : AnalysisSettled(call, resp)

\* handleSendChat whose guard does not read isThinking
handleSendChat_ignoresThinking ==
  /\ activeTab = "chat"
  /\ IF trim(userQuery) = <<>>
       THEN UNCHANGED <<userQuery, chatMessages, isThinking, calls>>
       ELSE LET newMessages ==
                  Append(chatMessages, [role |-> "user", content |-> userQuery])
            IN /\ Len(chatMessages) < MaxChat
               /\ InFlight < MaxCalls
               /\ userQuery' = <<>>
               /\ chatMessages' = newMessages
               /\ isThinking' = TRUE
               /\ calls' = Issue(Call("chatWithAssistant", "", newMessages, NoAnalysis))
  /\ event' = [op |-> "handleSendChat", query |-> userQuery]
  /\ UNCHANGED <<game, pgn, username, inputMode, recentGames, isSearchingLichess,
                 showGameSelector, isAnalyzing, analysis, moveHistory,
                 currentMoveIndex, error, activeTab>>

\* handleSendChat up to its await: the send button (disabled while thinking
\* or with a blank input) or the Enter key in the chat field (never disabled).
handleSendChat ==
  /\ activeTab = "chat"
  /\ IF trim(userQuery) = <<>> \/ isThinking
       THEN UNCHANGED <<userQuery, chatMessages, isThinking, calls>>
       ELSE LET newMessages ==
                  Append(chatMessages, [role |-> "user", content |-> userQuery])
            IN /\ Len(chatMessages) < MaxChat
               /\ InFlight < MaxCalls
               /\ userQuery' = <<>>
               /\ chatMessages' = newMessages
               /\ isThinking' = TRUE
               /\ calls' = Issue(Call("chatWithAssistant", "", newMessages, NoAnalysis))
  /\ event' = [op |-> "handleSendChat", query |-> userQuery]
  /\ UNCHANGED <<game, pgn, username, inputMode, recentGames, isSearchingLichess,
                 showGameSelector, isAnalyzing, analysis, moveHistory,
                 currentMoveIndex, error, activeTab>>

\* handleSendChat from its await on
SendChatSettled(call, resp) ==
  LET r == chatWithAssistant(resp) IN
  /\ call.kind = "chatWithAssistant"
  /\ calls' = Settle(call)
  /\ IF r.throws
       THEN /\ error' = ChatFailedMsg
            /\ UNCHANGED chatMessages
       ELSE /\ chatMessages' =
                 Append(call.newMessages, [role |-> "assistant", content |-> r.text])
            /\ UNCHANGED error
  /\ isThinking' = FALSE
  /\ event' = [op |-> "handleSendChat.settled", resp |-> resp]
  /\ UNCHANGED <<game, pgn, username, inputMode, recentGames, isSearchingLichess,
                 showGameSelector, isAnalyzing, analysis, moveHistory,
                 currentMoveIndex, activeTab, userQuery>>

SendChatDone ==
  \E call \in BagToSet(calls) : \E resp \in ChatResponses : SendChatSettled(call, resp)

-----------------------------------------------------------------------------

Next ==
  \/ onDrop
  \/ PgnUpload
  \/ Previous
  \/ NextMove
  \/ ClickMove
  \/ resetGame
  \/ setInputMode
  \/ setUsername
  \/ setActiveTab
  \/ setUserQuery
  \/ closeGameSelector
  \/ handleLichessSearch
  \/ LichessSearchDone
  \/ SelectGame
  \/ SelectGameDone
  \/ startAnalysis
  \/ AnalysisDone
  \/ handleSendChat
  \/ SendChatDone

\* The whole App.  The replay handlers and the coach handlers meet only in
\* error, isAnalyzing and the bag of calls, and their product is too large to
\* enumerate; the properties are checked under the two specifications below.
Spec == Init /\ [][Next]_vars

\* The replay state manager with the game server: every handler that writes
\* the PGN text, the move list, the index or the board.
NextReplay ==
  \/ onDrop
  \/ PgnUpload
  \/ Previous
  \/ NextMove
  \/ ClickMove
  \/ resetGame
  \/ setInputMode
  \/ setUsername
  \/ closeGameSelector
  \/ handleLichessSearch
  \/ LichessSearchDone
  \/ SelectGame
  \/ SelectGameDone

SpecReplay == Init /\ [][NextReplay]_vars

\* The AI coach on a game entered on the board: every handler that writes the
\* analysis, the transcript or the chat input.
NextCoach ==
  \/ onDrop
  \/ resetGame
  \/ setInputMode
  \/ setActiveTab
  \/ setUserQuery
  \/ startAnalysis
  \/ AnalysisDone
  \/ handleSendChat
  \/ SendChatDone

SpecCoach == Init /\ [][NextCoach]_vars

-----------------------------------------------------------------------------
(* Properties.                                                             *)

\* the moves 0..index of a move list, and the position they give from the start
MovesUpTo(moves, index) == SubSeq(moves, 1, index + 1)
ReplayedFromStart(moves, index) == PlayMoves(DEFAULT_POSITION, MovesUpTo(moves, index))

\* <<text>> when the last handler submitted a PGN text (an uploaded file, or
\* the body of a fetched game), <<>> otherwise
SubmittedPgn(ev) ==
  IF ev.op = "handlePgnUpload" THEN <<ev.text>>
  ELSE IF ev.op = "selectLichessGame.settled" /\ ~ev.resp.rejects /\ ev.resp.status = 200
    THEN <<ev.text>>
  ELSE <<>>

\* the rules engine accepts / rejects a text
EngineAccepts(text) ==
  text # EmptyPgn /\
  PlayMoves(IF text.fen = <<>> THEN DEFAULT_POSITION ELSE text.fen[1], text.moves).ok
EngineRejects(text) ==
  text # EmptyPgn /\
  ~PlayMoves(IF text.fen = <<>> THEN DEFAULT_POSITION ELSE text.fen[1], text.moves).ok

\* C1: in every reachable state -1 <= currentMoveIndex <= moveHistory.length - 1.
C1_IndexInRange ==
  /\ -1 <= currentMoveIndex
  /\ currentMoveIndex <= Len(moveHistory) - 1

\* C1 witness: the next button has brought a three-move game to its last move.
C1_Witness ==
  /\ event.op = "navigateToMove"
  /\ event.index = 2
  /\ Len(moveHistory) = 3
  /\ currentMoveIndex = 2

\* C2: in every reachable state the displayed position is the position after
\* moves 0..currentMoveIndex of the move list, played from the starting position.
C2_DisplayedIsReplay ==
  LET r == ReplayedFromStart(moveHistory, currentMoveIndex)
  IN r.ok /\ fen(game) = r.pos

\* C3: a legal board move made while move k is displayed leaves the move list
\* equal to the former moves 0..k followed by the new move, with
\* currentMoveIndex at the new move.
C3_MoveAppendsToPrefix ==
  [][(event'.op = "onDrop" /\ event'.ret) =>
       /\ moveHistory' = Append(MovesUpTo(moveHistory, currentMoveIndex), event'.san)
       /\ currentMoveIndex' = Len(moveHistory') - 1]_vars

\* C4: after a submission of a PGN text the rules engine accepts, the move list
\* is the text's move sequence, currentMoveIndex is the last move and the end
\* position is displayed, whatever the state before the submission.
C4_AcceptedPgnLoaded ==
  \A text \in {SubmittedPgn(event)[k] : k \in 1 .. Len(SubmittedPgn(event))} :
    EngineAccepts(text) =>
      /\ moveHistory = text.moves
      /\ currentMoveIndex = Len(text.moves) - 1
      /\ fen(game) =
           PlayMoves(IF text.fen = <<>> THEN DEFAULT_POSITION ELSE text.fen[1],
                     text.moves).pos

\* C5: a submission of a PGN text the rules engine rejects sets the error to
\* the invalid-PGN message and leaves move list, index and displayed position
\* as they were.
C5_RejectedPgnReported ==
  [][\A text \in {SubmittedPgn(event')[k] : k \in 1 .. Len(SubmittedPgn(event'))} :
       EngineRejects(text) =>
         /\ error' = InvalidPgnMsg
         /\ moveHistory' = moveHistory
         /\ currentMoveIndex' = currentMoveIndex
         /\ fen(game') = fen(game)]_vars

\* C6: after a submission of a PGN text that loads, the error is null.
C6_LoadClearsError ==
  \A text \in {SubmittedPgn(event)[k] : k \in 1 .. Len(SubmittedPgn(event))} :
    EngineAccepts(text) => error = NoError

\* C7: a drop of a move that is illegal in the displayed position returns false
\* and leaves move list, index, board, PGN text and error unchanged.
C7_IllegalDropIgnored ==
  [][(event'.op = "onDrop" /\ ~LegalMove(fen(game), event'.san)) =>
       /\ event'.ret = FALSE
       /\ UNCHANGED <<moveHistory, currentMoveIndex, game, pgn, error>>]_vars

\* C7 witness: a drop was refused on a loaded three-move game while an error
\* was on display.
C7_Witness ==
  /\ event.op = "onDrop"
  /\ ~event.ret
  /\ Len(moveHistory) = 3
  /\ error # NoError

C9_FailedAnalysisKeepsPrevious ==
  (event.op = "startAnalysis.settled" /\
     (event.resp.rejects \/ ~event.resp.json \/ event.resp.fields # AnalysisFields)) =>
    /\ error = AnalysisFailedMsg
    /\ analysis = event.shown

\* a text of blanks only (the empty text included)
IsBlankText(text) == \A k \in 1 .. Len(text) : text[k] = Blank

\* C10: a send-chat triggered with a blank input or while a reply is in flight
\* changes nothing: no message appended, no call issued, no other state written.
C10_GuardedSendIsNoOp ==
  [][(event'.op = "handleSendChat" /\ (IsBlankText(userQuery) \/ isThinking)) =>
       UNCHANGED <<game, pgn, username, inputMode, recentGames, isSearchingLichess,
                   showGameSelector, isAnalyzing, analysis, moveHistory,
                   currentMoveIndex, error, activeTab, chatMessages, userQuery,
                   isThinking, calls>>]_vars

\* C10 witness: a send of a non-blank input was refused while a reply was in
\* flight (the input still holds the text).
C10_Witness ==
  /\ event.op = "handleSendChat"
  /\ event.query = <<"q">>
  /\ userQuery = <<"q">>
  /\ isThinking
  /\ Len(chatMessages) = 1

\* s is an initial part of t
IsPrefix(s, t) == Len(s) <= Len(t) /\ SubSeq(t, 1, Len(s)) = s

\* C11: an accepted send appends the user message at once; a successful reply
\* appends exactly one assistant message, directly after that user message; a
\* failed reply appends nothing, keeps the user message and sets the
\* chat-failure error; every step but reset keeps the transcript as a prefix.
C11_TranscriptAppendOnly ==
  [][/\ (event'.op = "handleSendChat" /\ ~IsBlankText(userQuery) /\ ~isThinking) =>
          chatMessages' = Append(chatMessages, [role |-> "user", content |-> userQuery])
     /\ (event'.op = "handleSendChat.settled" /\ ~event'.resp.rejects) =>
          /\ Len(chatMessages') = Len(chatMessages) + 1
          /\ IsPrefix(chatMessages, chatMessages')
          /\ chatMessages'[Len(chatMessages')].role = "assistant"
          /\ Len(chatMessages) >= 1
          /\ chatMessages[Len(chatMessages)].role = "user"
     /\ (event'.op = "handleSendChat.settled" /\ event'.resp.rejects) =>
          /\ chatMessages' = chatMessages
          /\ Len(chatMessages) >= 1
          /\ chatMessages[Len(chatMessages)].role = "user"
          /\ error' = ChatFailedMsg
     /\ event'.op # "resetGame" => IsPrefix(chatMessages, chatMessages')]_vars

\* C12: a game-list fetch answered with a non-success status (404) sets the
\* error to the not-found-or-private message, sets the searching flag to false
\* and leaves move list, index, board and game list as they were.
C12_ListFetch404 ==
  [][(event'.op = "handleLichessSearch.settled" /\ ~event'.resp.rejects /\
        event'.resp.status = 404) =>
       /\ error' = NotFoundMsg
       /\ isSearchingLichess' = FALSE
       /\ UNCHANGED <<moveHistory, currentMoveIndex, game, recentGames>>]_vars

\* C12 witness: a 404 was reported while a three-move game was on the board and
\* an earlier search had filled the game list.
C12_Witness ==
  /\ event.op = "handleLichessSearch.settled"
  /\ ~event.resp.rejects
  /\ event.resp.status = 404
  /\ error = NotFoundMsg
  /\ Len(moveHistory) = 3
  /\ recentGames = ServerGames

\* C13: with the actions triggered through the enabled controls only, at most
\* one network call is in flight at any time.
C13_AtMostOneCall == InFlight <= 1

\* the handlers' continuations after their awaits
SettledOps ==
  {"handleLichessSearch.settled", "selectLichessGame.settled", "startAnalysis.settled",
   "handleSendChat.settled"}

\* C14: a response that arrives right after a reset, to a call issued before
\* it, leaves the analysis absent, the transcript empty and the PGN text and
\* move list empty.
C14_LateResponseKeepsReset ==
  [][(event.op = "resetGame" /\ event'.op \in SettledOps) =>
       /\ analysis' = NoAnalysis
       /\ chatMessages' = <<>>
       /\ pgn' = EmptyPgn
       /\ moveHistory' = <<>>]_vars

\* C15: in every reachable state the move list is the move sequence the
\* rules engine gives for the stored PGN text, and is empty when that text is
\* empty (a text the engine cannot replay gives no move).
C15_MoveListIsPgnHistory ==
  IF pgn # EmptyPgn /\
     PlayMoves(IF pgn.fen = <<>> THEN DEFAULT_POSITION ELSE pgn.fen[1], pgn.moves).ok
    THEN moveHistory = pgn.moves
    ELSE moveHistory = <<>>

====
